---- MODULE Spec2Model ----
(***************************************************************************)
(* Beam search for transducer models                                       *)
(* (espnet/nets/beam_search_transducer.py, class BeamSearchTransducer).    *)
(*                                                                         *)
(* Scores are log-probabilities in fixed point, one unit = 0.1 nat, so     *)
(* that -0.3 is the integer -3.  Adding log-probabilities is integer       *)
(* addition; np.logaddexp is computed as max + log1p(exp(-|a-b|)) with the *)
(* second term rounded to the nearest unit.                                *)
(*                                                                         *)
(* The decoder, the joint network and the language model are scoring       *)
(* oracles: finite tables of log-probability vectors indexed by the        *)
(* encoder frame and by the decoder output, which is determined by the     *)
(* last label of the hypothesis that was scored.                           *)
(***************************************************************************)
EXTENDS Integers, Sequences, FiniteSets, TLC

\* ---- bounds of the model ----
MaxT == 3
MaxBeamSize == 3
MaxNbest == 2
MaxSymExp == 2
MaxUMax == 2
MaxNstep == 2
MaxPrefixAlpha == 2

\* ---- program constants ----
VocabSize == 3
BlankId == 0

SearchTypes == {"default", "tsd", "alsd", "nsc", "unknown"}

\* ---- arithmetic helpers ----
Max2(a, b) == IF a >= b THEN a ELSE b
Min2(a, b) == IF a <= b THEN a ELSE b
Abs(a) == IF a >= 0 THEN a ELSE -a

\* round(10 * log(1 + exp(-d / 10))) for d = 0, 1, 2, ...; 0 from d = 30 on
Log1pExpTable ==
    << 7, 6, 6, 6, 5, 5, 4, 4, 4, 3, 3, 3, 3, 2, 2, 2, 2, 2, 2, 1,
       1, 1, 1, 1, 1, 1, 1, 1, 1, 1 >>

Log1pExp(d) == IF d < Len(Log1pExpTable) THEN Log1pExpTable[d + 1] ELSE 0

\* np.logaddexp(a, b) = log(exp(a) + exp(b))
LogAddExp(a, b) == Max2(a, b) + Log1pExp(Abs(a - b))

\* ---- sequence helpers ----
TakeAll(s, n) == s

\* s[:n] for n >= 0
Take(s, n) == SubSeq(s, 1, Min2(n, Len(s)))

Last(s) == s[Len(s)]

RECURSIVE SumSeq(_)
SumSeq(s) == IF s = << >> THEN 0 ELSE s[1] + SumSeq(Tail(s))

\* position of the first element of s equal to x (list.index), 0 if none
IndexOf(s, x) ==
    IF \E i \in 1..Len(s) : s[i] = x
    THEN CHOOSE i \in 1..Len(s) : s[i] = x /\ \A j \in 1..(i - 1) : s[j] # x
    ELSE 0

ScoreGt(a, b) == a.score > b.score

\* key = score / len(label_seq); lengths are positive
NormScoreGt(a, b) ==
    a.score * Len(b.label_seq) > b.score * Len(a.label_seq)

LenGt(a, b) == Len(a.label_seq) > Len(b.label_seq)

LogpGt(a, b) == a.logp > b.logp

\* key(a) > key(b) for the sort keys of the program
KeyGt(key, a, b) ==
    CASE key = "score" -> ScoreGt(a, b)
      [] key = "norm_score" -> NormScoreGt(a, b)
      [] key = "len" -> LenGt(a, b)
      [] key = "logp" -> LogpGt(a, b)

\* Python's stable sort with reverse=True: descending by key, elements with
\* equal keys keep their relative order
SortDesc(s, key) ==
    LET n == Len(s)
        Before(j, i) ==
            KeyGt(key, s[j], s[i]) \/ (~KeyGt(key, s[i], s[j]) /\ j < i)
        Rank(i) == Cardinality({j \in 1..n : Before(j, i)}) + 1
    IN  [r \in 1..n |-> s[CHOOSE i \in 1..n : Rank(i) = r]]

\* sorted(..., key=...) without reverse: ascending, stable
SortAsc(s, key) ==
    LET n == Len(s)
        Before(j, i) ==
            KeyGt(key, s[i], s[j]) \/ (~KeyGt(key, s[j], s[i]) /\ j < i)
        Rank(i) == Cardinality({j \in 1..n : Before(j, i)}) + 1
    IN  [r \in 1..n |-> s[CHOOSE i \in 1..n : Rank(i) = r]]

\* max(hyps, key=score): position of the first hypothesis of maximal score
ArgMaxScore(s) ==
    CHOOSE i \in 1..Len(s) :
        /\ \A j \in 1..Len(s) : s[j].score <= s[i].score
        /\ \A j \in 1..(i - 1) : s[j].score < s[i].score

RemoveAt(s, i) == SubSeq(s, 1, i - 1) \o SubSeq(s, i + 1, Len(s))

LabelSeqs(s) == [i \in 1..Len(s) |-> s[i].label_seq]

\* ---- scoring oracles ----
\* JointTable[o][f][d + 1][k + 1]: log-probability of label k at a frame of
\* kind f given decoder output d (the last label of the scored hypothesis).
\* No vector holds the same value twice, so arg-max and top-k are determined.
JointTable ==
    << \* oracle 1: blank dominates, independent of the hypothesis
       << << << -1, -15, -23 >>, << -1, -15, -23 >>, << -1, -15, -23 >> >>,
          << << -2, -10, -30 >>, << -2, -10, -30 >>, << -2, -10, -30 >> >> >>,
       \* oracle 2: labels dominate, blank is unlikely
       << << << -9, -3, -5 >>, << -9, -3, -5 >>, << -9, -3, -5 >> >>,
          << << -9, -5, -3 >>, << -9, -5, -3 >>, << -9, -5, -3 >> >> >>,
       \* oracle 3: depends on the hypothesis
       << << << -6, -2, -20 >>, << -2, -13, -7 >>, << -8, -3, -12 >> >>,
          << << -3, -12, -6 >>, << -7, -4, -30 >>, << -1, -25, -18 >> >> >> >>

Oracles == 1..Len(JointTable)
FrameKinds == 1..2

\* lm_weight * lm_scores[k + 1] given the last token fed to the LM
LmTable ==
    << << 0, -1, -2 >>, << 0, -3, -1 >>, << 0, -1, -4 >> >>

\* decoder.score / decoder.batch_score: the decoder output of a hypothesis
DecOut(label_seq) == Last(label_seq)

\* log_softmax(joint_network(enc_out_t, dec_out) / softmax_temperature)
JointLogp(o, f, d) == JointTable[o][f][d + 1]

ArgMaxNonBlank(logp) ==
    CHOOSE k \in 1..(VocabSize - 1) :
        \A j \in 1..(VocabSize - 1) : logp[k + 1] >= logp[j + 1]

ArgMinLabel(logp) ==
    CHOOSE k \in 0..(VocabSize - 1) :
        \A j \in 0..(VocabSize - 1) : logp[j + 1] >= logp[k + 1]

\* torch.max(logp, dim=-1): the arg-max label
ArgMaxLabel(logp) ==
    CHOOSE k \in 0..(VocabSize - 1) :
        \A j \in 0..(VocabSize - 1) : logp[j + 1] <= logp[k + 1]

\* logp[1:].topk(k): the k best non-blank labels, best first, as <<logp, label>>
NonBlank(logp) == [i \in 1..(VocabSize - 1) |-> [logp |-> logp[i + 1], k |-> i]]

TopK(logp, k) == Take(SortDesc(NonBlank(logp), "logp"), k)

\* ---- hypotheses ----
NoLmState == -1

Hypothesis(score, label_seq, dec_state, lm_state) ==
    [score |-> score, label_seq |-> label_seq, dec_state |-> dec_state,
     lm_state |-> lm_state]

NSCHypothesis(score, label_seq, dec_state, dec_out, lm_state, lm_scores) ==
    [score |-> score, label_seq |-> label_seq, dec_state |-> dec_state,
     dec_out |-> dec_out, lm_state |-> lm_state, lm_scores |-> lm_scores]

VARIABLES
    pc,                \* position of the program
    beam_size, search_type, nbest, score_norm, use_lm, oracle,
    max_sym_exp, u_max, nstep, prefix_alpha,
    search_algorithm,  \* the algorithm selected at construction
    enc_out,           \* the encoder frames of the call
    t,                 \* index of the frame being processed (1-based)
    rnd,               \* round index within a frame: v (tsd), i (alsd), n (nsc)
    ci,                \* tsd: position in C of the next blank-extension
    seq_A,             \* tsd: the label sequences of A when the round began
    hyps, kept_hyps,   \* default, nsc (greedy: hyps holds the one hypothesis)
    A, B, C,           \* tsd, alsd
    final,             \* alsd
    S, V,              \* nsc
    next_state,        \* next fresh decoder-state handle
    nbest_hyps         \* the returned list

conf == << beam_size, search_type, nbest, score_norm, use_lm, oracle,
           max_sym_exp, u_max, nstep, prefix_alpha >>
work == << t, rnd, ci, seq_A, hyps, kept_hyps, A, B, C, final, S, V, next_state >>
vars == << pc, conf, search_algorithm, enc_out, work, nbest_hyps >>

SortNbestOffByOne(h) ==
    IF score_norm
    THEN Take(SortDesc(h, "norm_score"), nbest - 1)
    ELSE Take(SortDesc(h, "score"), nbest - 1)

SortNbestNoReverse(h) ==
    IF score_norm
    THEN Take(SortAsc(h, "norm_score"), nbest)
    ELSE Take(SortAsc(h, "score"), nbest)

\* sort_nbest, lines 130-135
sort_nbest(h) ==
    IF score_norm
    THEN Take(SortDesc(h, "norm_score"), nbest)
    ELSE Take(SortDesc(h, "score"), nbest)

\* The constructor arguments.  Arguments an algorithm does not read keep
\* their default values.
Init ==
    /\ pc = "new"
    /\ beam_size \in 0..MaxBeamSize
    /\ search_type \in SearchTypes
    /\ nbest \in 1..MaxNbest
    /\ score_norm \in BOOLEAN
    /\ oracle \in Oracles
    /\ use_lm \in BOOLEAN
    /\ use_lm => oracle = Len(JointTable)
    /\ max_sym_exp \in IF search_type = "tsd" THEN 1..MaxSymExp ELSE {2}
    /\ u_max \in IF search_type = "alsd" THEN 1..MaxUMax ELSE {50}
    /\ nstep \in IF search_type = "nsc" THEN 1..MaxNstep ELSE {1}
    /\ prefix_alpha \in IF search_type = "nsc" THEN 1..MaxPrefixAlpha ELSE {1}
    /\ search_algorithm = "none"
    /\ enc_out = << >>
    /\ t = 0 /\ rnd = 0 /\ ci = 0 /\ seq_A = << >>
    /\ hyps = << >> /\ kept_hyps = << >>
    /\ A = << >> /\ B = << >> /\ C = << >>
    /\ final = << >>
    /\ S = << >> /\ V = << >>
    /\ next_state = 0
    /\ nbest_hyps = << >>

SelectAlgorithmLenient ==
    IF beam_size <= 1 THEN "greedy_search"
    ELSE IF search_type = "tsd" THEN "time_sync_decoding"
    ELSE IF search_type = "alsd" THEN "align_length_sync_decoding"
    ELSE IF search_type = "nsc" THEN "nsc_beam_search"
    ELSE "default_beam_search"

SelectAlgorithmSwapped ==
    IF beam_size <= 1 THEN "greedy_search"
    ELSE IF search_type = "default" THEN "default_beam_search"
    ELSE IF search_type = "tsd" THEN "align_length_sync_decoding"
    ELSE IF search_type = "alsd" THEN "time_sync_decoding"
    ELSE IF search_type = "nsc" THEN "nsc_beam_search"
    ELSE "NotImplementedError"

\* __init__, the selection of self.search_algorithm
SelectAlgorithm ==
    IF beam_size <= 1 THEN "greedy_search"
    ELSE IF search_type = "default" THEN "default_beam_search"
    ELSE IF search_type = "tsd" THEN "time_sync_decoding"
    ELSE IF search_type = "alsd" THEN "align_length_sync_decoding"
    ELSE IF search_type = "nsc" THEN "nsc_beam_search"
    ELSE "NotImplementedError"

\* __init__
Construct ==
    /\ pc = "new"
    /\ IF SelectAlgorithm = "NotImplementedError"
       THEN pc' = "config_error" /\ UNCHANGED search_algorithm
       ELSE pc' = "ready" /\ search_algorithm' = SelectAlgorithm
    /\ UNCHANGED << conf, enc_out, work, nbest_hyps >>

\* the working beam width of the beam algorithms
beam == Min2(beam_size, VocabSize)
beam_k == Min2(beam, VocabSize - 1)

InitHyp(h) == Hypothesis(0, << BlankId >>, h, NoLmState)

\* __call__: dispatch to the selected algorithm and run its prologue
Call ==
    /\ pc = "ready"
    /\ \E T \in 0..MaxT : enc_out' \in [1..T -> FrameKinds]
    /\ pc' = search_algorithm
    /\ t' = 1 /\ rnd' = 0 /\ ci' = 0 /\ seq_A' = << >>
    /\ A' = << >> /\ C' = << >> /\ final' = << >> /\ S' = << >> /\ V' = << >>
    /\ next_state' = 1
    /\ CASE search_algorithm = "greedy_search" ->
              /\ hyps' = << InitHyp(0) >>
              /\ kept_hyps' = << >> /\ B' = << >>
         [] search_algorithm = "default_beam_search" ->
              /\ kept_hyps' = << InitHyp(0) >>
              /\ hyps' = << >> /\ B' = << >>
         [] search_algorithm \in {"time_sync_decoding",
                                  "align_length_sync_decoding"} ->
              /\ B' = << InitHyp(0) >>
              /\ hyps' = << >> /\ kept_hyps' = << >>
         [] search_algorithm = "nsc_beam_search" ->
              /\ kept_hyps' = << NSCHypothesis(0, << BlankId >>, 0,
                                               << DecOut(<< BlankId >>) >>,
                                               IF use_lm THEN BlankId
                                               ELSE NoLmState,
                                               IF use_lm THEN BlankId
                                               ELSE NoLmState) >>
              /\ hyps' = << >> /\ B' = << >>
    /\ UNCHANGED << conf, search_algorithm, nbest_hyps >>

\* greedy_search: one encoder frame, or the return after the last one
greedy_search ==
    /\ pc = "greedy_search"
    /\ IF t <= Len(enc_out)
       THEN LET hyp == hyps[1]
                logp == JointLogp(oracle, enc_out[t], DecOut(hyp.label_seq))
                pred == ArgMaxLabel(logp)
            IN  /\ IF pred # BlankId
                   THEN /\ hyps' = << Hypothesis(hyp.score + logp[pred + 1],
                                                 Append(hyp.label_seq, pred),
                                                 next_state, hyp.lm_state) >>
                        /\ next_state' = next_state + 1
                   ELSE UNCHANGED << hyps, next_state >>
                /\ t' = t + 1
                /\ UNCHANGED << pc, nbest_hyps >>
       ELSE /\ nbest_hyps' = hyps
            /\ pc' = "done"
            /\ UNCHANGED << t, hyps, next_state >>
    /\ UNCHANGED << conf, search_algorithm, enc_out, rnd, ci, seq_A,
                    kept_hyps, A, B, C, final, S, V >>

\* lm_weight * lm_scores[k] after the LM has been fed the token tok
LmTerm(tok, k) == IF use_lm THEN LmTable[tok + 1][k + 1] ELSE 0

\* the LM state after lm.predict / lm.buff_predict on the hypothesis h
LmStateAfter(h) == IF use_lm THEN Last(h.label_seq) ELSE h.lm_state

DefaultExpansionsDropped(max_hyp, logp, state) == << >>

\* default_beam_search, lines 221-234: the non-blank candidates of max_hyp
DefaultExpansions(max_hyp, logp, state) ==
    LET top_k == TopK(logp, beam_k)
    IN  [j \in 1..Len(top_k) |->
            Hypothesis(max_hyp.score + top_k[j].logp
                           + LmTerm(Last(max_hyp.label_seq), top_k[j].k),
                       Append(max_hyp.label_seq, top_k[j].k),
                       state, LmStateAfter(max_hyp))]

\* default_beam_search, lines 236-240
KeptMostProb(kept, frontier) ==
    LET hyps_max == frontier[ArgMaxScore(frontier)].score
    IN  SortAsc(SelectSeq(kept, LAMBDA h : h.score > hyps_max), "score")

\* default_beam_search: the head of the frame loop (lines 191-193), or the
\* return after the last frame (line 245)
default_beam_search ==
    /\ pc = "default_beam_search"
    /\ IF t <= Len(enc_out)
       THEN /\ hyps' = kept_hyps
            /\ kept_hyps' = << >>
            /\ pc' = "default_expand"
            /\ UNCHANGED nbest_hyps
       ELSE /\ nbest_hyps' = sort_nbest(kept_hyps)
            /\ pc' = "done"
            /\ UNCHANGED << hyps, kept_hyps >>
    /\ UNCHANGED << conf, search_algorithm, enc_out, t, rnd, ci, seq_A,
                    A, B, C, final, S, V, next_state >>

\* default_beam_search: one iteration of the while loop (lines 195-243);
\* max() of an empty frontier (line 236) raises
default_expand ==
    /\ pc = "default_expand"
    /\ LET m == ArgMaxScore(hyps)
           max_hyp == hyps[m]
           logp == JointLogp(oracle, enc_out[t], DecOut(max_hyp.label_seq))
           kept == Append(kept_hyps,
                          Hypothesis(max_hyp.score + logp[BlankId + 1],
                                     max_hyp.label_seq, max_hyp.dec_state,
                                     max_hyp.lm_state))
           frontier == RemoveAt(hyps, m)
                           \o DefaultExpansions(max_hyp, logp, next_state)
           kept_most_prob == KeptMostProb(kept, frontier)
       IN  /\ hyps' = frontier
           /\ next_state' = next_state + 1
           /\ IF frontier = << >>
              THEN /\ kept_hyps' = kept
                   /\ pc' = "error"
                   /\ UNCHANGED t
              ELSE IF Len(kept_most_prob) >= beam
              THEN /\ kept_hyps' = kept_most_prob
                   /\ t' = t + 1
                   /\ pc' = "default_beam_search"
              ELSE /\ kept_hyps' = kept
                   /\ UNCHANGED << t, pc >>
    /\ UNCHANGED << conf, search_algorithm, enc_out, rnd, ci, seq_A,
                    A, B, C, final, S, V, nbest_hyps >>

\* time_sync_decoding: the head of the frame loop (lines 275-277), or the
\* return after the last frame (line 349)
time_sync_decoding ==
    /\ pc = "time_sync_decoding"
    /\ IF t <= Len(enc_out)
       THEN /\ A' = << >>
            /\ C' = B
            /\ rnd' = 0
            /\ pc' = "tsd_batch_score"
            /\ UNCHANGED nbest_hyps
       ELSE /\ nbest_hyps' = sort_nbest(B)
            /\ pc' = "done"
            /\ UNCHANGED << A, C, rnd >>
    /\ UNCHANGED << conf, search_algorithm, enc_out, t, ci, seq_A, hyps,
                    kept_hyps, B, final, S, V, next_state >>

\* time_sync_decoding: the start of round v (lines 282-298); topk(beam) over
\* the VocabSize - 1 non-blank labels raises when beam exceeds their number
tsd_batch_score ==
    /\ pc = "tsd_batch_score"
    /\ IF beam > VocabSize - 1
       THEN pc' = "error" /\ UNCHANGED << ci, seq_A >>
       ELSE pc' = "tsd_blank" /\ ci' = 1 /\ seq_A' = LabelSeqs(A)
    /\ UNCHANGED << conf, search_algorithm, enc_out, t, rnd, hyps, kept_hyps,
                    A, B, C, final, S, V, next_state, nbest_hyps >>

MergeBlankMax(acc, seqs, cand) ==
    IF IndexOf(seqs, cand.label_seq) = 0
    THEN Append(acc, cand)
    ELSE [acc EXCEPT ![IndexOf(seqs, cand.label_seq)].score =
                         Max2(@, cand.score)]

\* time_sync_decoding, lines 301-315: the blank-extension candidate cand is
\* appended to A, or added into the entry of A with its label sequence
MergeBlank(acc, seqs, cand) ==
    IF IndexOf(seqs, cand.label_seq) = 0
    THEN Append(acc, cand)
    ELSE [acc EXCEPT ![IndexOf(seqs, cand.label_seq)].score =
                         LogAddExp(@, cand.score)]

\* the blank-extension candidate of C[i] in the current round
TsdBlankCand(i) ==
    LET hyp == C[i]
        logp == JointLogp(oracle, enc_out[t], DecOut(hyp.label_seq))
    IN  Hypothesis(hyp.score + logp[BlankId + 1], hyp.label_seq,
                   hyp.dec_state, hyp.lm_state)

\* time_sync_decoding: one iteration of the loop of lines 300-315
tsd_blank ==
    /\ pc = "tsd_blank"
    /\ ci <= Len(C)
    /\ A' = MergeBlank(A, seq_A, TsdBlankCand(ci))
    /\ ci' = ci + 1
    /\ UNCHANGED << pc, conf, search_algorithm, enc_out, t, rnd, seq_A, hyps,
                    kept_hyps, B, C, final, S, V, next_state, nbest_hyps >>

\* time_sync_decoding / align_length_sync_decoding: the non-blank candidates
\* of the i-th scored hypothesis; each gets its own select_state handle
BeamExpansions(hyp, logp, first_state) ==
    LET top_k == TopK(logp, beam)
    IN  [j \in 1..Len(top_k) |->
            Hypothesis(hyp.score + top_k[j].logp
                           + LmTerm(Last(hyp.label_seq), top_k[j].k),
                       Append(hyp.label_seq, top_k[j].k),
                       first_state + j - 1, LmStateAfter(hyp))]

RECURSIVE TsdD(_)
\* the list D of lines 327-343 built from C[1..n]
TsdD(n) ==
    IF n = 0 THEN << >>
    ELSE TsdD(n - 1)
            \o BeamExpansions(C[n],
                   JointLogp(oracle, enc_out[t], DecOut(C[n].label_seq)),
                   next_state + (n - 1) * beam)

TsdExpandsAlways(v) == TRUE

\* time_sync_decoding, line 317: round v makes non-blank expansions
TsdExpands(v) == v < max_sym_exp - 1

\* time_sync_decoding: the rest of round v (lines 317-345) and, after the
\* last round, the end of the frame (line 347)
tsd_expand ==
    /\ pc = "tsd_blank"
    /\ ci > Len(C)
    /\ LET D == IF TsdExpands(rnd) THEN TsdD(Len(C)) ELSE << >>
       IN  /\ C' = Take(SortDesc(D, "score"), beam)
           /\ next_state' = next_state + Len(D)
    /\ IF rnd + 1 < max_sym_exp
       THEN /\ rnd' = rnd + 1
            /\ pc' = "tsd_batch_score"
            /\ UNCHANGED << B, t >>
       ELSE /\ B' = Take(SortDesc(A, "score"), beam)
            /\ t' = t + 1
            /\ rnd' = 0
            /\ pc' = "time_sync_decoding"
    /\ UNCHANGED << conf, search_algorithm, enc_out, ci, seq_A, hyps,
                    kept_hyps, A, final, S, V, nbest_hyps >>

\* align_length_sync_decoding, lines 365-366
t_max == Len(enc_out)
alsd_u_max == Min2(u_max, t_max - 1)

\* enc_out[i] for a Python index i (negative indices count from the end)
EncAt(i) == IF i >= 0 THEN enc_out[i + 1] ELSE enc_out[t_max + i + 1]

AlsdFrameNoOffset(i, hyp) == i - (Len(hyp.label_seq) - 1)

\* align_length_sync_decoding, lines 389-390: the frame implied by round i
AlsdFrame(i, hyp) == i - (Len(hyp.label_seq) - 1) + 1

\* align_length_sync_decoding, lines 386-396: the hypotheses of B scored in
\* round i, in order; B_enc_out[j][0] is AlsdFrame(i, B_[j])
AlsdLive(i) == SelectSeq(B, LAMBDA hyp : ~(AlsdFrame(i, hyp) > t_max - 1))

RECURSIVE recombine_hyps(_)
\* utils.recombine_hyps: hypotheses with the same label sequence become one
\* entry, at the position of the first, whose score is their log-sum-exp
recombine_hyps(h) ==
    IF h = << >> THEN << >>
    ELSE LET done == recombine_hyps(SubSeq(h, 1, Len(h) - 1))
             hyp == Last(h)
             pos == IndexOf(LabelSeqs(done), hyp.label_seq)
         IN  IF pos = 0
             THEN Append(done, hyp)
             ELSE [done EXCEPT ![pos].score = LogAddExp(@, hyp.score)]

\* the blank-extension candidate of a scored hypothesis (lines 425-430)
AlsdBlankCand(i, hyp) ==
    LET logp == JointLogp(oracle, EncAt(AlsdFrame(i, hyp)),
                          DecOut(hyp.label_seq))
    IN  Hypothesis(hyp.score + logp[BlankId + 1], hyp.label_seq,
                   hyp.dec_state, hyp.lm_state)

RECURSIVE AlsdA(_, _, _)
\* the list A of lines 424-452 built from live[1..n] in round i
AlsdA(i, live, n) ==
    IF n = 0 THEN << >>
    ELSE AlsdA(i, live, n - 1)
            \o << AlsdBlankCand(i, live[n]) >>
            \o BeamExpansions(live[n],
                   JointLogp(oracle, EncAt(AlsdFrame(i, live[n])),
                             DecOut(live[n].label_seq)),
                   next_state + (n - 1) * beam)

AlsdFinalNewAll(i, live) ==
    [j \in 1..Len(live) |-> AlsdBlankCand(i, live[j])]

\* lines 434-435: the blank-extension candidates of round i that go to final
AlsdFinalNew(i, live) ==
    LET at_end == SelectSeq(live,
                      LAMBDA hyp : AlsdFrame(i, hyp) = t_max - 1)
    IN  [j \in 1..Len(at_end) |-> AlsdBlankCand(i, at_end[j])]

\* align_length_sync_decoding, lines 457-460
AlsdReturn == IF final # << >> THEN sort_nbest(final) ELSE B

\* align_length_sync_decoding, line 383: the number of rounds
AlsdRounds == t_max + alsd_u_max

\* align_length_sync_decoding: round i (lines 384-455), or the return after
\* the last round
align_length_sync_decoding ==
    /\ pc = "align_length_sync_decoding"
    /\ IF rnd < AlsdRounds
       THEN LET live == AlsdLive(rnd)
                cand == AlsdA(rnd, live, Len(live))
            IN  IF live = << >>
                THEN /\ rnd' = rnd + 1
                     /\ A' = << >>
                     /\ UNCHANGED << pc, B, final, next_state, nbest_hyps >>
                ELSE IF beam > VocabSize - 1
                THEN /\ pc' = "error"
                     /\ UNCHANGED << rnd, A, B, final, next_state,
                                     nbest_hyps >>
                ELSE /\ A' = cand
                     /\ final' = final \o AlsdFinalNew(rnd, live)
                     /\ B' = recombine_hyps(Take(SortDesc(cand, "score"),
                                                 beam))
                     /\ next_state' = next_state + Len(live) * beam
                     /\ rnd' = rnd + 1
                     /\ UNCHANGED << pc, nbest_hyps >>
       ELSE /\ nbest_hyps' = AlsdReturn
            /\ pc' = "done"
            /\ UNCHANGED << rnd, A, B, final, next_state >>
    /\ UNCHANGED << conf, search_algorithm, enc_out, t, ci, seq_A, hyps,
                    kept_hyps, C, S, V >>

\* utils.is_prefix: pref is a true prefix of x
is_prefix(x, pref) ==
    /\ Len(pref) < Len(x)
    /\ SubSeq(x, 1, Len(pref)) = pref

\* utils.substract: the hypotheses of x whose label sequence no hypothesis
\* of subset has
substract(x, subset) ==
    SelectSeq(x, LAMBDA h :
        ~\E j \in 1..Len(subset) : subset[j].label_seq = h.label_seq)

\* nsc_beam_search, lines 534-537
NscMergeable(hyp_j, hyp_i) ==
    /\ is_prefix(hyp_j.label_seq, hyp_i.label_seq)
    /\ Len(hyp_j.label_seq) - Len(hyp_i.label_seq) <= prefix_alpha

RECURSIVE NscReplay(_, _, _, _)
\* lines 546-553: the sum over k in range(from, to) of
\* logp(hyp_j.dec_out[k])[hyp_j.label_seq[k + 1]], Python indices
NscReplay(f, hyp_j, from, to) ==
    IF from >= to THEN 0
    ELSE JointLogp(oracle, f, hyp_j.dec_out[from + 1])
                [hyp_j.label_seq[from + 2] + 1]
            + NscReplay(f, hyp_j, from + 1, to)

\* lines 538-553: curr_score of the pair (hyp_j, hyp_i)
NscCurrScore(f, hyp_j, hyp_i) ==
    LET curr_id == Len(hyp_j.label_seq)
        pref_id == Len(hyp_i.label_seq)
    IN  hyp_i.score
            + JointLogp(oracle, f, Last(hyp_i.dec_out))
                  [hyp_j.label_seq[pref_id + 1] + 1]
            + NscReplay(f, hyp_j, pref_id, curr_id - 1)

RECURSIVE NscMergeIntoReplace(_, _, _, _)
NscMergeIntoReplace(f, hyp_j, h, i) ==
    IF i > Len(h) THEN hyp_j
    ELSE NscMergeIntoReplace(f,
            IF NscMergeable(hyp_j, h[i])
            THEN [hyp_j EXCEPT !.score = NscCurrScore(f, hyp_j, h[i])]
            ELSE hyp_j,
            h, i + 1)

RECURSIVE NscMergeInto(_, _, _, _)
\* lines 530-555 for one hyp_j: fold the hypotheses h[i..] into hyp_j
NscMergeInto(f, hyp_j, h, i) ==
    IF i > Len(h) THEN hyp_j
    ELSE NscMergeInto(f,
            IF NscMergeable(hyp_j, h[i])
            THEN [hyp_j EXCEPT !.score =
                      LogAddExp(@, NscCurrScore(f, hyp_j, h[i]))]
            ELSE hyp_j,
            h, i + 1)

RECURSIVE NscPrefixMerge(_, _, _)
\* lines 529-555: hyp_j = h[j] for j = 1 .. Len(h) - 1 in turn
NscPrefixMerge(f, h, j) ==
    IF j >= Len(h) THEN h
    ELSE NscPrefixMerge(f,
            [h EXCEPT ![j] = NscMergeInto(f, h[j], h, j + 1)], j + 1)

\* every hyp_j.dec_out[k] read by the prefix merging exists
NscReplayInRange(h) ==
    \A j \in 1..Len(h) : \A i \in (j + 1)..Len(h) :
        NscMergeable(h[j], h[i]) =>
            /\ Len(h[i].dec_out) >= 1
            /\ Len(h[j].label_seq) - 1 <= Len(h[j].dec_out)

\* nsc_beam_search: the head of the frame loop with the prefix merging
\* (lines 523-558), or the return after the last frame (line 657)
nsc_beam_search ==
    /\ pc = "nsc_beam_search"
    /\ IF t <= Len(enc_out)
       THEN LET sorted == SortDesc(kept_hyps, "len")
            IN  IF NscReplayInRange(sorted)
                THEN /\ hyps' = NscPrefixMerge(enc_out[t], sorted, 1)
                     /\ kept_hyps' = << >>
                     /\ S' = << >> /\ V' = << >>
                     /\ rnd' = 0
                     /\ pc' = "nsc_expand"
                     /\ UNCHANGED nbest_hyps
                ELSE /\ pc' = "error"
                     /\ UNCHANGED << hyps, kept_hyps, S, V, rnd, nbest_hyps >>
       ELSE /\ nbest_hyps' = sort_nbest(kept_hyps)
            /\ pc' = "done"
            /\ UNCHANGED << hyps, kept_hyps, S, V, rnd >>
    /\ UNCHANGED << conf, search_algorithm, enc_out, t, ci, seq_A,
                    A, B, C, final, next_state >>

\* lines 569-579: the blank-extensions of the round
NscS(f) ==
    [i \in 1..Len(hyps) |->
        [hyps[i] EXCEPT !.score =
            @ + JointLogp(oracle, f, Last(hyps[i].dec_out))[BlankId + 1]]]

\* lines 581-596: the non-blank candidates of one hypothesis
NscExpansions(f, hyp) ==
    LET top_k == TopK(JointLogp(oracle, f, Last(hyp.dec_out)), beam_k)
    IN  [j \in 1..Len(top_k) |->
            [hyp EXCEPT !.label_seq = Append(@, top_k[j].k),
                        !.score = @ + top_k[j].logp
                                    + (IF use_lm
                                       THEN LmTable[hyp.lm_scores + 1]
                                                   [top_k[j].k + 1]
                                       ELSE 0)]]

RECURSIVE NscV(_, _)
NscV(f, n) ==
    IF n = 0 THEN << >>
    ELSE NscV(f, n - 1) \o NscExpansions(f, hyps[n])

NscBlankTermAlways(f, v) ==
    JointLogp(oracle, f, DecOut(v.label_seq))[BlankId + 1]

\* lines 635-643: the blank log-probability added in the last round
NscBlankTerm(f, v) ==
    IF nstep # 1
    THEN JointLogp(oracle, f, DecOut(v.label_seq))[BlankId + 1]
    ELSE 0

NscRefreshNoAppend(f, v, last_round) ==
    [i \in 1..Len(v) |->
        [v[i] EXCEPT !.score = @ + (IF last_round
                                    THEN NscBlankTerm(f, v[i]) ELSE 0),
                     !.dec_state = next_state + i - 1,
                     !.lm_state = IF use_lm THEN Last(v[i].label_seq) ELSE @,
                     !.lm_scores = IF use_lm THEN Last(v[i].label_seq)
                                   ELSE @]]

\* lines 601-653: the surviving hypotheses with refreshed decoder output,
\* decoder state and LM state
NscRefresh(f, v, last_round) ==
    [i \in 1..Len(v) |->
        [v[i] EXCEPT !.score = @ + (IF last_round
                                    THEN NscBlankTerm(f, v[i]) ELSE 0),
                     !.dec_out = Append(@, DecOut(v[i].label_seq)),
                     !.dec_state = next_state + i - 1,
                     !.lm_state = IF use_lm THEN Last(v[i].label_seq) ELSE @,
                     !.lm_scores = IF use_lm THEN Last(v[i].label_seq)
                                   ELSE @]]

\* lines 598-599: V of the round, sorted, without the label sequences of
\* hyps, cut to beam
NscVCut(f) ==
    Take(substract(SortDesc(V \o NscV(f, Len(hyps)), "score"), hyps), beam)

\* nsc_beam_search: expansion round n (lines 559-653) and, after the last
\* round, the end of the frame (line 655)
nsc_expand ==
    /\ pc = "nsc_expand"
    /\ LET f == enc_out[t]
           s_new == S \o NscS(f)
           v_cut == NscVCut(f)
           last_round == ~(rnd < nstep - 1)
           v_new == NscRefresh(f, v_cut, last_round)
       IN  /\ S' = s_new
           /\ V' = v_new
           /\ next_state' = next_state + Len(v_new)
           /\ IF last_round
              THEN /\ kept_hyps' = Take(SortDesc(s_new \o v_new, "score"),
                                        beam)
                   /\ t' = t + 1
                   /\ pc' = "nsc_beam_search"
                   /\ UNCHANGED << hyps, rnd >>
              ELSE /\ hyps' = v_new
                   /\ rnd' = rnd + 1
                   /\ UNCHANGED << kept_hyps, t, pc >>
    /\ UNCHANGED << conf, search_algorithm, enc_out, ci, seq_A,
                    A, B, C, final, nbest_hyps >>

Next ==
    \/ Construct
    \/ Call
    \/ greedy_search
    \/ default_beam_search
    \/ default_expand
    \/ time_sync_decoding
    \/ tsd_batch_score
    \/ tsd_blank
    \/ tsd_expand
    \/ align_length_sync_decoding
    \/ nsc_beam_search
    \/ nsc_expand

Spec == Init /\ [][Next]_vars

\* the while loop of default beam search (line 195) runs on: an iteration
\* that can be taken is taken
FairSpec == Spec /\ WF_vars(default_expand)

\* ---- the claims ----
ValidSearchTypes == {"default", "tsd", "alsd", "nsc"}

\* the algorithm a position of the program belongs to
AlgOf(p) ==
    CASE p = "greedy_search" -> "greedy_search"
      [] p \in {"default_beam_search", "default_expand"} ->
             "default_beam_search"
      [] p \in {"time_sync_decoding", "tsd_batch_score", "tsd_blank"} ->
             "time_sync_decoding"
      [] p = "align_length_sync_decoding" -> "align_length_sync_decoding"
      [] p \in {"nsc_beam_search", "nsc_expand"} -> "nsc_beam_search"
      [] OTHER -> "none"

\* the ranking key of h[i] is not below that of h[i + 1]
RankedDesc(h) ==
    \A i \in 1..(Len(h) - 1) :
        IF score_norm THEN ~NormScoreGt(h[i + 1], h[i])
        ELSE ~ScoreGt(h[i + 1], h[i])

DistinctLabelSeqs(h) ==
    \A i, j \in 1..Len(h) : i # j => h[i].label_seq # h[j].label_seq

\* C1: every returned list has at most nbest hypotheses and its ranking key
\* (score / len(label_seq) under score_norm, else score) is non-increasing,
\* the return of ALSD with an empty `final` included.
C1_NbestOrdered ==
    pc = "done" => Len(nbest_hyps) <= nbest /\ RankedDesc(nbest_hyps)

\* C2 as stated: a search_type outside {default, tsd, alsd, nsc} makes the
\* construction fail whatever the beam_size.
C2_UnknownTypeAlwaysFails ==
    (pc # "new" /\ search_type \notin ValidSearchTypes) => pc = "config_error"

\* C2 amended: with beam_size > 1, a search_type outside {default, tsd, alsd,
\* nsc} makes the construction fail, and no algorithm is selected.
C2_UnknownTypeFailsBeam ==
    (pc # "new" /\ search_type \notin ValidSearchTypes /\ beam_size > 1)
        => (pc = "config_error" /\ search_algorithm = "none")

C2_Witness ==
    pc = "config_error" /\ search_type \notin ValidSearchTypes /\ beam_size > 1

\* C3: the algorithm is selected once, at construction: greedy for
\* beam_size <= 1 whatever the search_type and without error; for
\* beam_size > 1 the one named by search_type; a call runs exactly it.
C3_StrategySelection ==
    /\ (pc # "new" /\ beam_size <= 1) =>
           (pc # "config_error" /\ search_algorithm = "greedy_search")
    /\ (pc # "new" /\ beam_size > 1 /\ search_type = "default") =>
           search_algorithm = "default_beam_search"
    /\ (pc # "new" /\ beam_size > 1 /\ search_type = "tsd") =>
           search_algorithm = "time_sync_decoding"
    /\ (pc # "new" /\ beam_size > 1 /\ search_type = "alsd") =>
           search_algorithm = "align_length_sync_decoding"
    /\ (pc # "new" /\ beam_size > 1 /\ search_type = "nsc") =>
           search_algorithm = "nsc_beam_search"
    /\ AlgOf(pc) # "none" => AlgOf(pc) = search_algorithm

C3_Witness ==
    pc = "nsc_expand" /\ beam_size > 1 /\ search_type = "nsc" /\ t = 2

\* the oracle gives blank the highest log-probability at every frame of the
\* call, for every decoder output
BlankDominates ==
    \A i \in 1..Len(enc_out) : \A d \in 0..(VocabSize - 1) :
        \A k \in 1..(VocabSize - 1) :
            JointLogp(oracle, enc_out[i], d)[BlankId + 1]
                > JointLogp(oracle, enc_out[i], d)[k + 1]

BlankLogps ==
    [i \in 1..Len(enc_out) |->
        JointLogp(oracle, enc_out[i], BlankId)[BlankId + 1]]

\* C4 as stated: greedy search under an oracle that puts blank first at
\* every frame returns the one hypothesis [blank] whose score is the sum of
\* the frames' blank log-probabilities.
C4_GreedyAllBlankSum ==
    (pc = "done" /\ search_algorithm = "greedy_search" /\ BlankDominates) =>
        /\ Len(nbest_hyps) = 1
        /\ nbest_hyps[1].label_seq = << BlankId >>
        /\ nbest_hyps[1].score = SumSeq(BlankLogps)

\* C4 amended: greedy search under an oracle that puts blank first at every
\* frame returns the one hypothesis [blank] with the initial score 0; no
\* blank log-probability is added to it.
C4_GreedyAllBlank ==
    (pc = "done" /\ search_algorithm = "greedy_search" /\ BlankDominates) =>
        /\ Len(nbest_hyps) = 1
        /\ nbest_hyps[1].label_seq = << BlankId >>
        /\ nbest_hyps[1].score = 0

C4_Witness ==
    /\ pc = "done" /\ search_algorithm = "greedy_search" /\ BlankDominates
    /\ Len(enc_out) = 2 /\ enc_out[1] # enc_out[2]

\* C5: between rounds and at frame boundaries no working set of a beam
\* algorithm (frontier, kept, A, B, S and V together) holds two hypotheses
\* with the same label_seq.
C5_NoDuplicateLabelSeq ==
    /\ pc \in {"default_beam_search", "default_expand"} =>
           DistinctLabelSeqs(hyps) /\ DistinctLabelSeqs(kept_hyps)
    /\ pc \in {"time_sync_decoding", "tsd_batch_score"} =>
           DistinctLabelSeqs(A) /\ DistinctLabelSeqs(B)
    /\ pc = "align_length_sync_decoding" => DistinctLabelSeqs(B)
    /\ pc \in {"nsc_beam_search", "nsc_expand"} =>
           DistinctLabelSeqs(kept_hyps) /\ DistinctLabelSeqs(S \o V)

\* C6: on an empty frame sequence every algorithm returns, without error,
\* exactly the initial hypothesis: label_seq = [blank], score = 0.
C6_EmptyInput ==
    (pc \in {"done", "error"} /\ enc_out = << >>) =>
        /\ pc = "done"
        /\ Len(nbest_hyps) = 1
        /\ nbest_hyps[1].label_seq = << BlankId >>
        /\ nbest_hyps[1].score = 0

C6_Witness ==
    /\ pc = "done" /\ enc_out = << >>
    /\ search_algorithm = "align_length_sync_decoding"

\* C7: every hypothesis ALSD returns for a non-empty frame sequence has at
\* most min(u_max, t_max - 1) labels after the leading blank.
C7_AlsdLengthBound ==
    (/\ pc = "done" /\ search_algorithm = "align_length_sync_decoding"
     /\ Len(enc_out) >= 1) =>
        \A i \in 1..Len(nbest_hyps) :
            Len(nbest_hyps[i].label_seq) - 1 <= Min2(u_max, Len(enc_out) - 1)

\* C8: in a round i of ALSD, every hypothesis added to `final` is the
\* blank-extension of a hypothesis of B whose implied frame
\* i - (len(label_seq) - 1) + 1 is t_max - 1; and after the last round an
\* empty `final` makes the call return the working beam B, not an error.
C8_AlsdFinal ==
    [][pc = "align_length_sync_decoding" =>
          /\ Len(final') >= Len(final)
          /\ SubSeq(final', 1, Len(final)) = final
          /\ \A j \in (Len(final) + 1)..Len(final') :
                /\ rnd - (Len(final'[j].label_seq) - 1) + 1 = Len(enc_out) - 1
                /\ \E b \in 1..Len(B) :
                      /\ B[b].label_seq = final'[j].label_seq
                      /\ final'[j] = AlsdBlankCand(rnd, B[b])
          /\ (rnd >= Len(enc_out) + Min2(u_max, Len(enc_out) - 1)
                 /\ final = << >>) =>
                (pc' = "done" /\ nbest_hyps' = B)]_vars

C8_Witness ==
    /\ pc = "done" /\ search_algorithm = "align_length_sync_decoding"
    /\ Len(final) >= 2
    /\ \E j \in 1..Len(final) : Len(final[j].label_seq) > 1

\* C9: in TSD a blank-extension candidate with score b whose label_seq is
\* already in A with score a adds no entry and makes that entry's score
\* log(exp(a) + exp(b)), leaving the rest of A alone; A never holds a
\* label_seq twice.
C9_TsdRecombination ==
    /\ [][(pc = "tsd_blank" /\ ci <= Len(C)) =>
            LET cand == TsdBlankCand(ci)
                p == IndexOf(LabelSeqs(A), cand.label_seq)
            IN  IF p # 0
                THEN /\ Len(A') = Len(A)
                     /\ A'[p].score = LogAddExp(A[p].score, cand.score)
                     /\ A'[p].score >= Max2(A[p].score, cand.score)
                     /\ \A q \in 1..Len(A) : q # p => A'[q] = A[q]
                     /\ A'[p].label_seq = A[p].label_seq
                ELSE A' = Append(A, cand)]_vars
    /\ [](AlgOf(pc) = "time_sync_decoding" => DistinctLabelSeqs(A))

\* the merge has happened: the entry [0, 1] of A holds more than either path
C9_Witness ==
    /\ pc = "tsd_blank" /\ ci = 2 /\ rnd = 1 /\ t = 2 /\ oracle = 1
    /\ enc_out = << 1, 2 >>
    /\ Len(A) = 2 /\ A[2].label_seq = << 0, 1 >> /\ A[2].score = -8

\* C10: default beam search, 3 labels, frames with log-probabilities
\* [-0.1, -1.5, -2.3] then [-0.2, -1.0, -3.0], beam_size 2, no LM: the
\* first returned hypothesis is label_seq = [0] with score -0.3.
C10_Scenario ==
    (/\ pc = "done" /\ search_algorithm = "default_beam_search"
     /\ oracle = 1 /\ enc_out = << 1, 2 >> /\ beam_size = 2 /\ ~use_lm) =>
        /\ Len(nbest_hyps) >= 1
        /\ nbest_hyps[1].label_seq = << 0 >>
        /\ nbest_hyps[1].score = -3

C10_Witness ==
    /\ pc = "done" /\ search_algorithm = "default_beam_search"
    /\ oracle = 1 /\ enc_out = << 1, 2 >> /\ beam_size = 2 /\ ~use_lm
    /\ JointLogp(oracle, 1, 0) = << -1, -15, -23 >>
    /\ JointLogp(oracle, 2, 0) = << -2, -10, -30 >>

DistinctDecStates(h) ==
    \A i, j \in 1..Len(h) : i # j => h[i].dec_state # h[j].dec_state

\* C11: no two hypotheses present together in a working set of a beam
\* algorithm (frontier and kept, A, B, C, S and V) hold the same
\* decoder-state handle.
C11_ExclusiveDecState ==
    /\ pc \in {"default_beam_search", "default_expand"} =>
           DistinctDecStates(hyps \o kept_hyps)
    /\ pc \in {"time_sync_decoding", "tsd_batch_score"} =>
           DistinctDecStates(A) /\ DistinctDecStates(B) /\ DistinctDecStates(C)
    /\ pc = "align_length_sync_decoding" => DistinctDecStates(B)
    /\ pc \in {"nsc_beam_search", "nsc_expand"} =>
           DistinctDecStates(kept_hyps) /\ DistinctDecStates(S \o V)

\* pref is a true prefix of x at most alpha labels shorter
TruePrefixWithin(x, pref, alpha) ==
    /\ Len(pref) < Len(x)
    /\ \A k \in 1..Len(pref) : pref[k] = x[k]
    /\ Len(x) - Len(pref) <= alpha

\* C12: the prefix merging of a frame of NSC keeps the hypotheses and their
\* label sequences, lowers no score, and leaves unchanged the score of a
\* hypothesis that has no true prefix within prefix_alpha labels in the set.
C12_NscPrefixMerge ==
    [][(pc = "nsc_beam_search" /\ pc' = "nsc_expand") =>
          LET before == SortDesc(kept_hyps, "len")
          IN  /\ Len(hyps') = Len(before)
              /\ \A j \in 1..Len(before) :
                    /\ hyps'[j].label_seq = before[j].label_seq
                    /\ hyps'[j].dec_out = before[j].dec_out
                    /\ hyps'[j].dec_state = before[j].dec_state
                    /\ hyps'[j].score >= before[j].score
                    /\ (~\E i \in 1..Len(before) :
                            TruePrefixWithin(before[j].label_seq,
                                             before[i].label_seq,
                                             prefix_alpha))
                           => hyps'[j].score = before[j].score]_vars

\* a prefix merging has raised a score: [0] is folded into a longer hypothesis
C12_Witness ==
    /\ pc = "nsc_expand" /\ rnd = 0 /\ S = << >> /\ t >= 2
    /\ \E j, i \in 1..Len(hyps) :
          TruePrefixWithin(hyps[j].label_seq, hyps[i].label_seq, prefix_alpha)

\* C13: the set kept that default beam search carries from one frame to the
\* next, and hands to sort_nbest after the last frame, holds at most beam
\* hypotheses.
C13_DefaultKeptBound ==
    pc = "default_beam_search" => Len(kept_hyps) <= beam

\* the label sequences of the hypotheses of h
LabelSeqsOf(h) == { h[i].label_seq : i \in 1..Len(h) }

\* C14: after an ALSD round with candidates the working beam is the top beam
\* by score of the candidates merged by label sequence: it holds
\* min(beam, number of distinct candidate label sequences) hypotheses.
C14_AlsdMergeBeforeTruncate ==
    (pc = "align_length_sync_decoding" /\ A # << >>) =>
        /\ B = Take(SortDesc(recombine_hyps(A), "score"), beam)
        /\ Len(B) = Min2(beam, Cardinality(LabelSeqsOf(A)))

\* C15: ALSD on a non-empty input executes exactly t_max + u_max - 1 rounds
\* of the alignment index, with u_max = min(configured u_max, t_max - 1).
C15_AlsdRoundCount ==
    (pc = "done" /\ search_algorithm = "align_length_sync_decoding"
                 /\ Len(enc_out) >= 1) =>
        rnd = Len(enc_out) + Min2(u_max, Len(enc_out) - 1) - 1

\* C16: the per-frame expansion loop of default beam search terminates for
\* every frame (every oracle of the model has finite, strictly negative
\* non-blank log-probabilities and LM terms): the frontier is not empty when
\* its maximum is taken (lines 196 and 236), and from every iteration of the
\* loop the frame boundary is reached.
C16_DefaultLoopTerminates ==
    /\ [](pc = "default_expand" => hyps # << >>)
    /\ [](search_algorithm = "default_beam_search" => pc # "error")
    /\ (pc = "default_expand") ~> (pc = "default_beam_search")

\* a frame of default beam search has ended after several pops
C16_Witness ==
    /\ pc = "default_beam_search" /\ t >= 2
    /\ next_state >= 3 * (t - 1) + 1
    /\ Len(SelectSeq(kept_hyps,
               LAMBDA h : h.score > hyps[ArgMaxScore(hyps)].score)) >= beam

\* C17: in the last expansion round of an NSC frame the score of every
\* survivor of V grows by the blank log-probability of its refreshed decoder
\* output exactly when nstep # 1; with nstep = 1, and in the rounds before
\* the last, the survivors keep the score of their expansion.
C17_NscBlankTerm ==
    [][pc = "nsc_expand" =>
          LET f == enc_out[t]
              cut == NscVCut(f)
              blank(v) == JointLogp(oracle, f, Last(v.dec_out))[BlankId + 1]
          IN  /\ Len(V') = Len(cut)
              /\ \A i \in 1..Len(cut) :
                    /\ V'[i].label_seq = cut[i].label_seq
                    /\ V'[i].score =
                          cut[i].score
                            + (IF rnd = nstep - 1 /\ nstep # 1
                               THEN blank(V'[i]) ELSE 0)]_vars

\* a frame of NSC with two rounds has ended with survivors in V
C17_Witness ==
    /\ pc = "nsc_beam_search" /\ nstep = 2 /\ t >= 2 /\ V # << >>

\* C18: the working sets carried across iterations hold at most beam
\* hypotheses: B after every frame and C after every round of TSD, B after
\* every round of ALSD, V after every round and kept after every frame of NSC.
C18_WorkingSetBound ==
    /\ search_algorithm = "time_sync_decoding" =>
           Len(B) <= beam /\ Len(C) <= beam
    /\ search_algorithm = "align_length_sync_decoding" => Len(B) <= beam
    /\ search_algorithm = "nsc_beam_search" =>
           Len(V) <= beam /\ Len(kept_hyps) <= beam

\* a TSD frame with more candidates than beam has been cut to beam
C18_Witness ==
    /\ pc = "time_sync_decoding" /\ t >= 2
    /\ Len(A) > beam /\ Len(B) = beam

\* C19: at every frame boundary of NSC each kept hypothesis has one decoder
\* output per label of its label sequence, and no read hyp_j.dec_out[k] of
\* the prefix merging is out of range (NSC never raises).
C19_NscDecOutHistory ==
    search_algorithm = "nsc_beam_search" =>
        /\ pc # "error"
        /\ pc = "nsc_beam_search" =>
               \A j \in 1..Len(kept_hyps) :
                   Len(kept_hyps[j].dec_out) = Len(kept_hyps[j].label_seq)

\* a prefix merging has replayed a stored decoder output: the merged pair
\* is two labels apart
C19_Witness ==
    /\ pc = "nsc_expand" /\ rnd = 0 /\ S = << >>
    /\ \E j, i \in 1..Len(hyps) :
          /\ NscMergeable(hyps[j], hyps[i])
          /\ Len(hyps[j].label_seq) - Len(hyps[i].label_seq) >= 2

\* C20: greedy search handles each encoder frame once; when blank is the
\* arg-max the hypothesis is left as it is, otherwise the arg-max label is
\* appended and its log-probability added to the score; so after t frames
\* at most t labels have been appended, and a hypothesis without an appended
\* label has score 0.
C20_GreedyFrameEffect ==
    [][(pc = "greedy_search" /\ t <= Len(enc_out)) =>
          LET hyp == hyps[1]
              new == hyps'[1]
              logp == JointLogp(oracle, enc_out[t], Last(hyp.label_seq))
              blank_wins == \A k \in 1..VocabSize : logp[BlankId + 1] >= logp[k]
          IN  /\ t' = t + 1
              /\ Len(hyps') = 1
              /\ IF blank_wins
                 THEN hyps' = hyps
                 ELSE /\ Len(new.label_seq) = Len(hyp.label_seq) + 1
                      /\ SubSeq(new.label_seq, 1, Len(hyp.label_seq))
                             = hyp.label_seq
                      /\ Last(new.label_seq) # BlankId
                      /\ \A k \in 1..VocabSize :
                             logp[Last(new.label_seq) + 1] >= logp[k]
                      /\ new.score = hyp.score + logp[Last(new.label_seq) + 1]
              /\ Len(new.label_seq) - 1 <= t' - 1
              /\ (Len(new.label_seq) = 1) => (new.score = 0)]_vars

\* greedy search has returned after frames with a blank arg-max and frames
\* with a non-blank arg-max
C20_Witness ==
    /\ pc = "done" /\ search_algorithm = "greedy_search"
    /\ Len(enc_out) >= 2
    /\ Len(nbest_hyps[1].label_seq) - 1 \in 1..(Len(enc_out) - 1)

\* pref is x or a prefix of x, at most n labels shorter
ExtendsByAtMost(x, pref, n) ==
    /\ Len(pref) <= Len(x)
    /\ SubSeq(x, 1, Len(pref)) = pref
    /\ Len(x) - Len(pref) <= n

\* C21: the last of the max_sym_exp rounds of a TSD frame makes no non-blank
\* expansion (D is empty and no decoder state is selected), every hypothesis
\* of B after a frame extends a hypothesis of B before the frame by at most
\* max_sym_exp - 1 labels, and with max_sym_exp = 1 every returned label
\* sequence is the blank-only sequence.
C21_TsdLastRoundNoExpansion ==
    [][/\ (pc = "tsd_blank" /\ pc' # "tsd_blank" /\ rnd = max_sym_exp - 1) =>
             /\ C' = << >>
             /\ next_state' = next_state
             /\ pc' = "time_sync_decoding"
       /\ (pc = "tsd_blank" /\ pc' = "time_sync_decoding") =>
             \A j \in 1..Len(B') : \E i \in 1..Len(B) :
                 ExtendsByAtMost(B'[j].label_seq, B[i].label_seq,
                                 max_sym_exp - 1)
       /\ (pc = "time_sync_decoding" /\ pc' = "done" /\ max_sym_exp = 1) =>
             \A j \in 1..Len(nbest_hyps') :
                 nbest_hyps'[j].label_seq = << BlankId >>]_vars

\* a TSD frame of two rounds has ended with a hypothesis in B that extends
\* the initial hypothesis by max_sym_exp - 1 = 1 label
C21_Witness ==
    /\ pc = "time_sync_decoding" /\ max_sym_exp = 2 /\ t = 2
    /\ \E j \in 1..Len(B) : Len(B[j].label_seq) = 2

\* C22: at the start of every ALSD round i each hypothesis of the beam has
\* at most i labels after the blank, and each hypothesis scored in the round
\* has an implied frame t with 1 <= t <= t_max - 1: the index into enc_out
\* is in range and frame 0 scores no hypothesis.
C22_AlsdFrameRange ==
    (pc = "align_length_sync_decoding" /\ rnd < AlsdRounds) =>
        /\ \A j \in 1..Len(B) : Len(B[j].label_seq) - 1 <= rnd
        /\ \A j \in 1..Len(AlsdLive(rnd)) :
              LET frame == AlsdFrame(rnd, AlsdLive(rnd)[j])
              IN  /\ 1 <= frame
                  /\ frame <= t_max - 1
                  /\ frame + 1 \in DOMAIN enc_out

\* a round of ALSD scores a hypothesis that has taken a label in every
\* earlier round: its implied frame is 1, the lowest frame used
C22_Witness ==
    /\ pc = "align_length_sync_decoding" /\ rnd >= 2 /\ rnd < AlsdRounds
    /\ \E j \in 1..Len(AlsdLive(rnd)) :
          /\ Len(AlsdLive(rnd)[j].label_seq) - 1 = rnd
          /\ AlsdFrame(rnd, AlsdLive(rnd)[j]) = 1
====
